---- MODULE Spec2Model ----
(***************************************************************************)
(* Shape-level model of src/model/modules.py: the transformer layers       *)
(* (MLP, GEGLU, MultiQueryAttention, MultiAxisAttention, EncoderBlock,     *)
(* TransformerBlock) and the helper axis_splitting.                        *)
(*                                                                         *)
(* A tensor is modelled by its shape (a sequence of naturals); the helper  *)
(* axis_splitting, whose contract is about element positions, is modelled  *)
(* on tensors that carry their elements.  A forward call is one action: it *)
(* runs the statements of forward() in order and records either the        *)
(* returned value or the exception that ended the call and its line.       *)
(***************************************************************************)
EXTENDS Integers, Sequences, FiniteSets, TLC

\* ------------------------------------------------------------------ bounds
MaxBatch == 1
MaxSeq   == 2
MaxDim   == 4
MaxHead  == 4
MaxBlock == 4
MaxSide  == 17
MaxN     == 2
MaxSeed  == 1
MaxChan  == 1

\* dropout rates offered to the constructors, in tenths
DropoutRates == {0, 5}
\* outcomes of the random source of one forward call
RandomDraws == {0, 1}

\* ------------------------------------------------------------------ values
\* data is the element at every index, or << >> when only the shape is tracked
Tensor(s) == [type |-> "Tensor", shape |-> s, data |-> << >>]
None      == [type |-> "NoneType", shape |-> << >>, data |-> << >>]
\* a lazy map object over a tensor (its items are never produced unless iterated)
MapObject(s) == [type |-> "map", shape |-> s, data |-> << >>]

\* Python truth value of a value: None is false
Truthy(v) == v.type # "NoneType"

Last(s) == s[Len(s)]
SetLast(s, w) == [s EXCEPT ![Len(s)] = w]

\* the outcome of a statement or call: a value, or the exception raised and its line
Ok(v)      == [exc |-> "none", line |-> 0, val |-> v]
Raised(e, l) == [exc |-> e, line |-> l, val |-> None]

\* what a forward call records besides its outcome
NoTrace == [steps |-> << >>, kv_arg |-> None, path |-> "none", dropped |-> FALSE,
            n |-> 0, p |-> 0, covered |-> 0]
\* the result of a forward call; noise is the random draw when dropout acted, else 0
Result(r, t, rnd) ==
    [exc |-> r.exc, line |-> r.line, val |-> r.val,
     noise |-> IF r.exc = "none" /\ t.dropped THEN rnd ELSE 0,
     steps |-> t.steps, kv_arg |-> t.kv_arg, path |-> t.path, dropped |-> t.dropped,
     n |-> t.n, p |-> t.p, covered |-> t.covered]
Step(t, name) == [t EXCEPT !.steps = Append(@, name)]
Steps(steps) == [NoTrace EXCEPT !.steps = steps]

\* statement sequencing: an exception in statement r ends the call with the trace t
\* recorded so far; otherwise the rest of the body K runs on the statement's value
Do(r, t, rnd, K(_)) == IF r.exc # "none" THEN Result(r, t, rnd) ELSE K(r.val)
\* the same for a nested forward call, whose result r carries its own trace
Then(r, K(_)) == IF r.exc # "none" THEN r ELSE K(r)

\* ------------------------------------------------------------------ layers
Linear(i, o) == [in_features |-> i, out_features |-> o]
LayerNorm(n) == [normalized_shape |-> n]

\* nn.Linear.forward: the argument must be a tensor whose last axis is in_features
Linear_forward(lin, x, l) ==
    IF x.type # "Tensor" THEN Raised("TypeError", l)
    ELSE IF Last(x.shape) # lin.in_features THEN Raised("RuntimeError", l)
    ELSE Ok(Tensor(SetLast(x.shape, lin.out_features)))

\* nn.LayerNorm.forward: the last axis must equal normalized_shape
LayerNorm_forward(ln, x, l) ==
    IF x.type # "Tensor" THEN Raised("TypeError", l)
    ELSE IF Last(x.shape) # ln.normalized_shape THEN Raised("RuntimeError", l)
    ELSE Ok(x)

\* Tensor.chunk(2, dim=-1): the widths of the chunks of a last axis of width w
Chunk2(w) ==
    IF w >= 2 THEN << (w + 1) \div 2, w - ((w + 1) \div 2) >>
    ELSE IF w = 1 THEN << 1 >> ELSE << >>

\* ------------------------------------------------------------------ GEGLU
\* x, gate = x.chunk(2, dim=-1); return gate * F.gelu(x, 'tanh')
\* (halves of unequal width multiply only when one of them has width 1)
GEGLU_forward(x) ==
    LET ch == Chunk2(Last(x.shape)) IN
    IF Len(ch) # 2 THEN Raised("ValueError", 259)
    ELSE IF ch[1] = ch[2] \/ ch[2] = 1 THEN Ok(Tensor(SetLast(x.shape, ch[1])))
    ELSE IF ch[1] = 1 THEN Ok(Tensor(SetLast(x.shape, ch[2])))
    ELSE Raised("RuntimeError", 260)

\* ------------------------------------------------------------------ MLP
\* inner_dim = int(emb_dim * 4 * 2/3)
MLP_inner_dim(emb_dim) == (emb_dim * 4 * 2) \div 3

MLP_ln1(emb_dim)   == LayerNorm(emb_dim)
MLP_proj1(emb_dim) == Linear(emb_dim, MLP_inner_dim(emb_dim))
MLP_ln2(emb_dim)   == LayerNorm(MLP_inner_dim(emb_dim))
MLP_proj2(emb_dim) == Linear(MLP_inner_dim(emb_dim), emb_dim)

MLP_forward(emb_dim, x, rnd) ==
    Do(LayerNorm_forward(MLP_ln1(emb_dim), x, 111), NoTrace, rnd, LAMBDA n1 :
    Do(Linear_forward(MLP_proj1(emb_dim), n1, 111), Steps(<< "ln1" >>), rnd, LAMBDA p1 :
    Do(GEGLU_forward(p1), Steps(<< "ln1", "proj1" >>), rnd, LAMBDA a :
    Do(LayerNorm_forward(MLP_ln2(emb_dim), a, 113),
       Steps(<< "ln1", "proj1", "act" >>), rnd, LAMBDA n2 :
    Do(Linear_forward(MLP_proj2(emb_dim), n2, 113),
       Steps(<< "ln1", "proj1", "act", "ln2" >>), rnd, LAMBDA o :
    Result(Ok(o), Steps(<< "ln1", "proj1", "act", "ln2", "proj2" >>), rnd))))))

\* ------------------------------------------------------------------ runtime
\* hasattr(F, name) for the attribute set F of torch.nn.functional
hasattr(F, name) == name \in F

\* the module kinds share one record shape; fields a kind lacks are 0
Module(kind, dim, nhead, block_size, dropout, flash, attrs) ==
    [kind |-> kind, dim |-> dim, nhead |-> nhead, block_size |-> block_size,
     dropout |-> dropout, training |-> TRUE, flash |-> flash, attrs |-> attrs]

\* attribute lookup on a module: nn.Module.__getattr__ raises AttributeError
HasAttr(self, name) == name \in self.attrs

\* ------------------------------------------------------------------ MultiQueryAttention
MQA_flash(F) == hasattr(F, "scaled_dot_product_attnetion")

MQA_init(F, emb_dim, nhead, dropout) ==
    Module("MultiQueryAttention", emb_dim, nhead, 0, dropout, MQA_flash(F),
           {"nhead", "emb_dim", "scale", "to_q", "to_kv", "to_o", "dropout",
            "attn_dropout", "flash"})

MQA_to_q(self)  == Linear(self.dim, self.dim)
MQA_to_kv(self) == Linear(self.dim, (2 * self.dim) \div self.nhead)
MQA_to_o(self)  == Linear(self.dim, self.dim)

\* context = context if not None else input
MQA_context(input, context) == IF ~Truthy(None) THEN context ELSE input

\* rearrange(q, "b ... (h d) -> b h ... d", h=h)
SplitHeads(x, h, l) ==
    LET s == x.shape IN
    IF Len(s) < 2 \/ Last(s) % h # 0 THEN Raised("EinopsError", l)
    ELSE Ok(Tensor(<< s[1], h >> \o SubSeq(s, 2, Len(s) - 1) \o << Last(s) \div h >>))

\* rearrange(y, "b h ... d -> b ... (h d)")
MergeHeads(y, l) ==
    LET s == y.shape IN
    IF Len(s) < 3 THEN Raised("EinopsError", l)
    ELSE Ok(Tensor(<< s[1] >> \o SubSeq(s, 3, Len(s) - 1) \o << s[2] * Last(s) >>))

\* torch.einsum("b ... n d, b t d -> b ... n t", q, k)
MQA_sim(q, k, l) ==
    LET s == q.shape  r == k.shape IN
    IF Len(s) < 3 \/ Len(r) # 3 \/ s[1] # r[1] \/ Last(s) # r[3]
    THEN Raised("RuntimeError", l)
    ELSE Ok(Tensor(SetLast(s, r[2])))

\* torch.einsum("b ... n t, b t d -> b ... n d", att, v)
MQA_weighted(att, v, l) ==
    LET s == att.shape  r == v.shape IN
    IF Len(s) < 3 \/ Len(r) # 3 \/ s[1] # r[1] \/ Last(s) # r[2]
    THEN Raised("RuntimeError", l)
    ELSE Ok(Tensor(SetLast(s, r[3])))

\* the attention step of MultiQueryAttention.forward (lines 155-161)
MQA_attention(F, self, q, k, v, t) ==
    IF self.flash THEN
        IF ~hasattr(F, "scaled_dot_product_attention")
        THEN [r |-> Raised("AttributeError", 156), t |-> t]
        ELSE [r |-> Ok(Tensor(SetLast(q.shape, Last(v.shape)))),
              t |-> [Step(t, "fused") EXCEPT !.path = "fused",
                       !.dropped = (IF self.training THEN self.dropout ELSE 0) > 0]]
    ELSE
        LET sim == MQA_sim(q, k, 159)
            t1  == [Step(t, "sim") EXCEPT !.path = "explicit"] IN
        IF sim.exc # "none" THEN [r |-> sim, t |-> [t EXCEPT !.path = "explicit"]] ELSE
        IF ~HasAttr(self, "attn_dropoutdropout")
        THEN [r |-> Raised("AttributeError", 160), t |-> t1] ELSE
        LET t2 == [Step(t1, "dropout") EXCEPT
                     !.dropped = self.training /\ self.dropout > 0]
            y  == MQA_weighted(sim.val, v, 161) IN
        [r |-> y, t |-> IF y.exc = "none" THEN Step(t2, "weighted") ELSE t2]

\* y = rearrange(y, "b h ... d -> b ... (h d)"); return self.to_o(y)
MQA_output(self, a, rnd) ==
    Do(a.r, a.t, rnd, LAMBDA y0 :
    Do(MergeHeads(y0, 163), a.t, rnd, LAMBDA y :
    Do(Linear_forward(MQA_to_o(self), y, 165), Step(a.t, "merge_heads"), rnd, LAMBDA o :
    Result(Ok(o), Step(Step(a.t, "merge_heads"), "to_o"), rnd))))

\* q, k, v = ... needs exactly the two chunks of the key/value projection
Unpack2(ch, l) == IF Len(ch) = 2 THEN Ok(ch) ELSE Raised("ValueError", l)

MQA_trace(steps, input, context) ==
    [NoTrace EXCEPT !.steps = steps, !.kv_arg = MQA_context(input, context)]

MQA_forward(F, self, input, context, rnd) ==
    Do(Linear_forward(MQA_to_q(self), input, 152),
       MQA_trace(<< >>, input, context), rnd, LAMBDA q0 :
    Do(Linear_forward(MQA_to_kv(self), MQA_context(input, context), 152),
       MQA_trace(<< "to_q" >>, input, context), rnd, LAMBDA kv :
    Do(Unpack2(Chunk2(Last(kv.shape)), 152),
       MQA_trace(<< "to_q" >>, input, context), rnd, LAMBDA ch :
    Do(SplitHeads(q0, self.nhead, 153),
       MQA_trace(<< "to_q", "to_kv" >>, input, context), rnd, LAMBDA q :
    MQA_output(self,
               MQA_attention(F, self, q, Tensor(SetLast(kv.shape, ch[1])),
                             Tensor(SetLast(kv.shape, ch[2])),
                             MQA_trace(<< "to_q", "to_kv", "split_heads" >>,
                                       input, context)),
               rnd)))))

\* ------------------------------------------------------------------ tensor helpers
Min(a, b) == IF a < b THEN a ELSE b
Max(a, b) == IF a > b THEN a ELSE b

Indices5(s) ==
    { << a, b, c, d, e >> : a \in 1..s[1], b \in 1..s[2], c \in 1..s[3],
                            d \in 1..s[4], e \in 1..s[5] }
HasData(t) == DOMAIN t.data # {}

\* t[:, lo:hi, ...] (Python slice: 0-based, half-open, clamped to the axis)
SliceHeads(t, lo, hi) ==
    LET a  == Min(lo, t.shape[2])
        b  == Max(a, Min(hi, t.shape[2]))
        ns == [t.shape EXCEPT ![2] = b - a] IN
    [type |-> "Tensor", shape |-> ns,
     data |-> IF HasData(t)
              THEN [i \in Indices5(ns) |-> t.data[[i EXCEPT ![2] = @ + a]]]
              ELSE << >>]

\* torch.transpose(t, 2, 3)
Transpose23(t, l) ==
    IF Len(t.shape) < 4 THEN Raised("IndexError", l) ELSE
    LET ns == [t.shape EXCEPT ![3] = t.shape[4], ![4] = t.shape[3]] IN
    Ok([type |-> "Tensor", shape |-> ns,
        data |-> IF HasData(t)
                 THEN [i \in Indices5(ns) |-> t.data[[i EXCEPT ![3] = i[4], ![4] = i[3]]]]
                 ELSE << >>])

\* torch.concat((a, b), dim=1): every axis but dim 1 must agree
Concat1(a, b, l) ==
    IF Len(a.shape) # Len(b.shape)
       \/ \E j \in 1..Len(a.shape) : j # 2 /\ a.shape[j] # b.shape[j]
    THEN Raised("RuntimeError", l) ELSE
    LET ns == [a.shape EXCEPT ![2] = a.shape[2] + b.shape[2]] IN
    Ok([type |-> "Tensor", shape |-> ns,
        data |-> IF HasData(a) \/ HasData(b)
                 THEN [i \in Indices5(ns) |->
                         IF i[2] <= a.shape[2] THEN a.data[i]
                         ELSE b.data[[i EXCEPT ![2] = @ - a.shape[2]]]]
                 ELSE << >>])

\* ------------------------------------------------------------------ axis_splitting
\* (the two groups concatenated in the wrong order)
SplitOne_swapped(t, h) ==
    LET t1 == SliceHeads(t, 0, h \div 2)
        t2 == SliceHeads(t, h \div 2, t.shape[2])
        tr == Transpose23(t1, 245) IN
    IF tr.exc # "none" THEN tr ELSE Concat1(t2, tr.val, 246)

\* one of q, k, v through the split, the transpose of the first group and the concat
SplitOne(t, h) ==
    LET t1 == SliceHeads(t, 0, h \div 2)
        t2 == SliceHeads(t, h \div 2, t.shape[2])
        tr == Transpose23(t1, 245) IN
    IF tr.exc # "none" THEN tr ELSE Concat1(tr.val, t2, 246)

axis_splitting(q, k, v, h) ==
    LET rq == SplitOne(q, h)  rk == SplitOne(k, h)  rv == SplitOne(v, h)
        bad == IF rq.exc # "none" THEN rq ELSE IF rk.exc # "none" THEN rk ELSE rv IN
    [exc |-> bad.exc, line |-> bad.line,
     q |-> IF bad.exc = "none" THEN rq.val ELSE None,
     k |-> IF bad.exc = "none" THEN rk.val ELSE None,
     v |-> IF bad.exc = "none" THEN rv.val ELSE None]

\* ------------------------------------------------------------------ MultiAxisAttention
MAA_flash(F) == hasattr(F, "scaled_dot_product_attnetion")

MAA_init(F, nchannels, block_size, nhead, dropout) ==
    Module("MultiAxisAttention", nchannels, nhead, block_size, dropout, MAA_flash(F),
           {"blocker", "nhead", "nchannels", "block_size", "scale", "to_qkv", "to_o",
            "flash"} \cup (IF MAA_flash(F) THEN {"dropout"} ELSE {"attn_dropout"}))

MAA_to_qkv(self) == Linear(self.dim, 3 * self.dim)

\* assert img.shape[2] == img.shape[3]
AssertSquare(img) == img.shape[3] = img.shape[4]
\* (the side only required to be a multiple of block_size)
AssertBlock_divisible(img, block_size) == img.shape[3] % block_size = 0
\* assert img.shape[2] // self.block_size == self.block_size
AssertBlock(img, block_size) == img.shape[3] \div block_size = block_size

\* nn.Unfold(k, stride=k): blocks along one side of length side
UnfoldSide(side, k) == (side - k) \div k + 1
\* nn.Unfold(k, stride=k).forward on (b, c, H, W): (b, c*k*k, L)
Unfold_forward(k, img, l) ==
    LET s == img.shape IN
    IF Len(s) # 4 \/ s[3] < k \/ s[4] < k THEN Raised("RuntimeError", l)
    ELSE Ok(Tensor(<< s[1], s[2] * k * k, UnfoldSide(s[3], k) * UnfoldSide(s[4], k) >>))

\* map(lambda t: rearrange(t, "b (c k k) n -> b n (k k) c", c=c), (img_blocks)):
\* (img_blocks) is the tensor itself, so map iterates it lazily and the lambda
\* is not run here
MAA_map(blocks) == MapObject(SubSeq(blocks.shape, 2, Len(blocks.shape)))

\* F.dropout(input, p, training): whether a mask is drawn and applied
F_dropout(p, training) == training /\ p > 0

\* rearrange(t, 'b n p (h c) -> b h n p c', h=h)
SplitHeads4(x, h, l) ==
    LET s == x.shape IN
    IF Len(s) # 4 \/ s[4] % h # 0 THEN Raised("EinopsError", l)
    ELSE Ok(Tensor(<< s[1], h, s[2], s[3], s[4] \div h >>))

\* the attention step of MultiAxisAttention.forward (lines 224-232):
\* F.dropout(sim.softmax(dim=-1)) is called with its defaults p=0.5, training=True
MAA_attention(F, self, q, k, v, t) ==
    IF self.flash THEN
        IF ~hasattr(F, "scaled_dot_product_attention") \/ ~HasAttr(self, "dropout")
        THEN [r |-> Raised("AttributeError", 225), t |-> t]
        ELSE [r |-> Ok(Tensor(SetLast(q.shape, Last(v.shape)))),
              t |-> [Step(t, "fused") EXCEPT !.path = "fused",
                       !.dropped = (IF self.training THEN self.dropout ELSE 0) > 0]]
    ELSE
        IF q.shape # k.shape \/ k.shape # v.shape
        THEN [r |-> Raised("RuntimeError", 230), t |-> [t EXCEPT !.path = "explicit"]]
        ELSE [r |-> Ok(Tensor(q.shape)),
              t |-> [Step(Step(Step(t, "sim"), "dropout"), "weighted") EXCEPT
                       !.path = "explicit", !.dropped = F_dropout(5, TRUE)]]

\* the two precondition asserts at the top of forward
MAA_asserts(self, img) ==
    IF ~AssertSquare(img) THEN Raised("AssertionError", 205)
    ELSE IF ~AssertBlock(img, self.block_size) THEN Raised("AssertionError", 206)
    ELSE Ok(img)
MAA_asserts_trace(self, img) ==
    [NoTrace EXCEPT !.steps = IF AssertSquare(img) THEN << "assert_square" >> ELSE << >>]

\* the trace once the blocker has run: n blocks of p pixels, covering a square of
\* side `covered` of the image
MAA_trace(self, img, blocks, steps) ==
    [NoTrace EXCEPT !.steps = << "assert_square", "assert_block", "blocker" >> \o steps,
                    !.n = blocks.shape[3],
                    !.p = self.block_size * self.block_size,
                    !.covered = self.block_size * UnfoldSide(img.shape[3], self.block_size)]

\* q, k, v = self.to_qkv(img_blocks).chunk(3, dim=-1)
Chunk3(x) == Tensor(SetLast(x.shape, Last(x.shape) \div 3))

\* y = rearrange(y, "b h n p c -> b n p (h c)"); return y
MAA_output(a, rnd) ==
    Do(a.r, a.t, rnd, LAMBDA y :
    Result(Ok(Tensor(<< y.shape[1], y.shape[3], y.shape[4], y.shape[2] * y.shape[5] >>)),
           Step(a.t, "merge_heads"), rnd))

\* axis_splitting as a statement of forward
MAA_split(hd, h) == axis_splitting(hd, hd, hd, h)
SplitResult(sp) == IF sp.exc # "none" THEN Raised(sp.exc, sp.line) ELSE Ok(sp)

MAA_forward(F, self, img, rnd) ==
    Do(MAA_asserts(self, img), MAA_asserts_trace(self, img), rnd, LAMBDA im :
    Do(Unfold_forward(self.block_size, im, 212),
       Steps(<< "assert_square", "assert_block" >>), rnd, LAMBDA blocks :
    Do(Linear_forward(MAA_to_qkv(self), MAA_map(blocks), 216),
       MAA_trace(self, img, blocks, << >>), rnd, LAMBDA qkv :
    Do(SplitHeads4(Chunk3(qkv), self.nhead, 217),
       MAA_trace(self, img, blocks, << "to_qkv" >>), rnd, LAMBDA hd :
    Do(SplitResult(MAA_split(hd, self.nhead)),
       MAA_trace(self, img, blocks, << "to_qkv", "split_heads" >>), rnd, LAMBDA sp :
    MAA_output(MAA_attention(F, self, sp.q, sp.k, sp.v,
                             MAA_trace(self, img, blocks,
                                       << "to_qkv", "split_heads", "axis_splitting" >>)),
               rnd))))))

\* ------------------------------------------------------------------ blocks
\* the sub-modules a block's __init__ builds; train()/eval() reach them too
Sub_attn(F, self) ==
    [MQA_init(F, self.dim, self.nhead, self.dropout) EXCEPT !.training = self.training]

\* a + b for two tensors of one shape
Add(a, b, l) == IF a.shape = b.shape THEN Ok(a) ELSE Raised("RuntimeError", l)

Block_init(kind, emb_dim, nhead, dropout) ==
    Module(kind, emb_dim, nhead, 0, dropout, FALSE,
           IF kind = "EncoderBlock" THEN {"ln1", "self_attn", "mlp"}
           ELSE {"ln1", "self_attn", "ln2", "cross_attn", "mlp"})

\* the result r of a nested call, continued as the block's own running state x
Running(r, x, step) ==
    [r EXCEPT !.exc = x.exc, !.line = x.line, !.val = x.val,
              !.steps = IF x.exc = "none" THEN << step >> ELSE << >>]
Failed(r) == [r EXCEPT !.steps = << >>, !.val = None]

\* x = input + <self-attention result sa>
Block_residual(input, sa, l) ==
    IF sa.exc # "none" THEN Failed(sa) ELSE Running(sa, Add(input, sa.val, l), "self_attn")

\* x = input + self.self_attn(self.ln1(input))
Block_self_attn(F, self, input, rnd, l) ==
    Do(LayerNorm_forward(LayerNorm(self.dim), input, l), NoTrace, rnd, LAMBDA n1 :
    Block_residual(input, MQA_forward(F, Sub_attn(F, self), n1, None, rnd), l))

\* what the block keeps of the steps before a nested call and of the call
Merge(r, c, x) ==
    [r EXCEPT !.exc = x.exc, !.line = x.line, !.val = x.val,
              !.noise = Max(@, c.noise), !.dropped = @ \/ c.dropped,
              !.steps = IF x.exc = "none" THEN Append(@, "cross_attn") ELSE @]

Cross_residual(r, ca, l) ==
    IF ca.exc # "none" THEN Merge(r, ca, Raised(ca.exc, ca.line))
    ELSE Merge(r, ca, Add(r.val, ca.val, l))

\* x = x + self.cross_attn(self.ln2(x), context)
Block_cross_attn(F, self, r, context, rnd, l) ==
    Do(LayerNorm_forward(LayerNorm(self.dim), r.val, l), r, rnd, LAMBDA n2 :
    Cross_residual(r, MQA_forward(F, Sub_attn(F, self), n2, context, rnd), l))

Block_mlp_result(r, m) ==
    [r EXCEPT !.exc = m.exc, !.line = m.line, !.val = m.val,
              !.steps = IF m.exc = "none" THEN Append(@, "mlp") ELSE @]

\* x = self.mlp(x); return x
Block_mlp(self, r, rnd) == Block_mlp_result(r, MLP_forward(self.dim, r.val, rnd))

EncoderBlock_forward(F, self, input, rnd) ==
    Then(Block_self_attn(F, self, input, rnd, 30), LAMBDA r :
    Block_mlp(self, r, rnd))

\* if context is not None: the cross-attention statement, else nothing
TB_cross(F, self, r, context, rnd) ==
    IF context.type # "NoneType" THEN Block_cross_attn(F, self, r, context, rnd, 85)
    ELSE r

TransformerBlock_forward(F, self, input, context, rnd) ==
    Then(Block_self_attn(F, self, input, rnd, 83), LAMBDA r :
    Then(TB_cross(F, self, r, context, rnd), LAMBDA c :
    Block_mlp(self, c, rnd)))

\* ------------------------------------------------------------------ state
VARIABLES
    F_attrs,   \* the attributes torch.nn.functional exposes in this runtime
    obj,       \* the module that was constructed (kind "none" before construction)
    call,      \* the latest call: its function, receiver, arguments and result
    prev       \* the call before it, when the latest call repeats it

vars == << F_attrs, obj, call, prev >>

NoObj  == Module("none", 0, 0, 0, 0, FALSE, {})
NoCall == [fn |-> "none", self |-> NoObj, input |-> None, context |-> None,
           rnd |-> 0, res |-> Result(Ok(None), NoTrace, 0)]

\* the two runtimes: with and without the fused attention primitive
Runtimes == { {"softmax", "gelu", "dropout", "scaled_dot_product_attention"},
              {"softmax", "gelu", "dropout"} }

Init ==
    /\ F_attrs \in Runtimes
    /\ obj = NoObj
    /\ call = NoCall
    /\ prev = NoCall

\* forward of the module self on the given arguments
Forward(F, self, input, context, rnd) ==
    CASE self.kind = "MLP" -> MLP_forward(self.dim, input, rnd)
      [] self.kind = "MultiQueryAttention" -> MQA_forward(F, self, input, context, rnd)
      [] self.kind = "MultiAxisAttention" -> MAA_forward(F, self, input, rnd)
      [] self.kind = "EncoderBlock" -> EncoderBlock_forward(F, self, input, rnd)
      [] self.kind = "TransformerBlock" ->
            TransformerBlock_forward(F, self, input, context, rnd)

CallRecord(self, input, context, rnd) ==
    [fn |-> self.kind, self |-> self, input |-> input, context |-> context,
     rnd |-> rnd, res |-> Forward(F_attrs, self, input, context, rnd)]

\* the token inputs (b, n, d) and the contexts (b, s, d) of one batch size
Tokens(b) == { Tensor(<< b, n, d >>) : n \in 1..MaxSeq, d \in 1..MaxDim }
Batches == 1..MaxBatch

\* (emb_dim // nhead) ** -0.5 raises ZeroDivisionError when emb_dim < nhead
ScaleDefined(dim, nhead) == dim \div nhead > 0

\* ------------------------------------------------------------------ construction
New_MLP ==
    /\ obj.kind = "none" /\ call.fn = "none"
    /\ \E d \in 1..MaxDim :
         obj' = Module("MLP", d, 0, 0, 0, FALSE, {"ln1", "proj1", "act", "ln2", "proj2"})
    /\ UNCHANGED << F_attrs, call, prev >>

New_MultiQueryAttention ==
    /\ obj.kind = "none" /\ call.fn = "none"
    /\ \E d \in 1..MaxDim, h \in 1..MaxHead, dr \in DropoutRates :
         /\ ScaleDefined(d, h)
         /\ obj' = MQA_init(F_attrs, d, h, dr)
    /\ UNCHANGED << F_attrs, call, prev >>

New_MultiAxisAttention ==
    /\ obj.kind = "none" /\ call.fn = "none"
    /\ \E c \in 1..MaxDim, k \in 1..MaxBlock, h \in 1..MaxHead, dr \in DropoutRates :
         /\ ScaleDefined(c, h)
         /\ obj' = MAA_init(F_attrs, c, k, h, dr)
    /\ UNCHANGED << F_attrs, call, prev >>

New_EncoderBlock ==
    /\ obj.kind = "none" /\ call.fn = "none"
    /\ \E d \in 1..MaxDim, h \in 1..MaxHead, dr \in DropoutRates :
         /\ ScaleDefined(d, h)
         /\ obj' = Block_init("EncoderBlock", d, h, dr)
    /\ UNCHANGED << F_attrs, call, prev >>

New_TransformerBlock ==
    /\ obj.kind = "none" /\ call.fn = "none"
    /\ \E d \in 1..MaxDim, h \in 1..MaxHead, dr \in DropoutRates :
         /\ ScaleDefined(d, h)
         /\ obj' = Block_init("TransformerBlock", d, h, dr)
    /\ UNCHANGED << F_attrs, call, prev >>

\* module.eval() / module.train(): the flag forward reads as self.training
Eval ==
    /\ obj.kind # "none" /\ obj.training /\ call.fn = "none"
    /\ obj' = [obj EXCEPT !.training = FALSE]
    /\ UNCHANGED << F_attrs, call, prev >>

Train ==
    /\ obj.kind # "none" /\ ~obj.training /\ call.fn = "none"
    /\ obj' = [obj EXCEPT !.training = TRUE]
    /\ UNCHANGED << F_attrs, call, prev >>

\* ------------------------------------------------------------------ calls
Call_MLP ==
    /\ obj.kind = "MLP" /\ call.fn = "none"
    /\ \E b \in Batches, rnd \in RandomDraws : \E x \in Tokens(b) :
         call' = CallRecord(obj, x, None, rnd)
    /\ UNCHANGED << F_attrs, obj, prev >>

Call_MultiQueryAttention ==
    /\ obj.kind = "MultiQueryAttention" /\ call.fn = "none"
    /\ \E b \in Batches, rnd \in RandomDraws :
       \E x \in Tokens(b), ctx \in Tokens(b) \cup {None} :
         call' = CallRecord(obj, x, ctx, rnd)
    /\ UNCHANGED << F_attrs, obj, prev >>

Call_MultiAxisAttention ==
    /\ obj.kind = "MultiAxisAttention" /\ call.fn = "none"
    /\ \E b \in Batches, rnd \in RandomDraws, H \in 1..MaxSide : \E W \in {H, H + 1} :
         call' = CallRecord(obj, Tensor(<< b, obj.dim, H, W >>), None, rnd)
    /\ UNCHANGED << F_attrs, obj, prev >>

Call_EncoderBlock ==
    /\ obj.kind = "EncoderBlock" /\ call.fn = "none"
    /\ \E b \in Batches, rnd \in RandomDraws : \E x \in Tokens(b) :
         call' = CallRecord(obj, x, None, rnd)
    /\ UNCHANGED << F_attrs, obj, prev >>

Call_TransformerBlock ==
    /\ obj.kind = "TransformerBlock" /\ call.fn = "none"
    /\ \E b \in Batches, rnd \in RandomDraws :
       \E x \in Tokens(b), ctx \in Tokens(b) \cup {None} :
         call' = CallRecord(obj, x, ctx, rnd)
    /\ UNCHANGED << F_attrs, obj, prev >>

\* the same forward call once more: same module, same arguments, a fresh random draw
Call_again ==
    /\ call.fn \notin {"none", "axis_splitting"} /\ prev.fn = "none"
    /\ \E rnd \in RandomDraws :
         call' = CallRecord(obj, call.input, call.context, rnd)
    /\ prev' = call
    /\ UNCHANGED << F_attrs, obj >>

\* the elements of a tensor of shape s, each labelled by its index and a seed
Labelled(s, seed) ==
    [type |-> "Tensor", shape |-> s, data |-> [i \in Indices5(s) |-> << seed >> \o i]]

\* axis_splitting(q, k, v, h) on q, k, v of shape (b, h, n, p, c)
Call_axis_splitting ==
    /\ obj.kind = "none" /\ call.fn = "none"
    /\ \E b \in Batches, h \in 1..MaxHead, n \in 1..MaxN, p \in 1..MaxN, c \in 1..MaxChan,
          sq \in 0..MaxSeed, sk \in 0..MaxSeed, sv \in 0..MaxSeed :
         LET s == << b, h, n, p, c >>
             q == Labelled(s, sq)  k == Labelled(s, sk)  v == Labelled(s, sv) IN
         call' = [fn |-> "axis_splitting", self |-> NoObj,
                  input |-> [q |-> q, k |-> k, v |-> v, h |-> h], context |-> None,
                  rnd |-> 0, res |-> axis_splitting(q, k, v, h)]
    /\ UNCHANGED << F_attrs, obj, prev >>

Next ==
    \/ New_MLP
    \/ New_MultiQueryAttention
    \/ New_MultiAxisAttention
    \/ New_EncoderBlock
    \/ New_TransformerBlock
    \/ Eval
    \/ Train
    \/ Call_MLP
    \/ Call_MultiQueryAttention
    \/ Call_MultiAxisAttention
    \/ Call_EncoderBlock
    \/ Call_TransformerBlock
    \/ Call_again
    \/ Call_axis_splitting

Spec == Init /\ [][Next]_vars

\* ------------------------------------------------------------------ properties
\* whether the call's trace records the step
Did(res, name) == \E j \in 1..Len(res.steps) : res.steps[j] = name
Returned(res)  == res.exc = "none"

IsAttentionCall == call.fn \in {"MultiQueryAttention", "MultiAxisAttention"}
IsSquareImageCall ==
    /\ call.fn = "MultiAxisAttention"
    /\ call.input.shape[3] = call.input.shape[4]

\* C1: a square image whose side is not divisible by block_size is rejected by the
\* precondition check, before the blocker runs, and no part of it is processed.
C1_NonDivisibleRejected ==
    (IsSquareImageCall /\ call.input.shape[3] % call.self.block_size # 0)
        => /\ call.res.exc = "AssertionError"
           /\ ~Did(call.res, "blocker")
           /\ call.res.covered = 0

\* C2: a square image (b, c, s, s) with s divisible by block_size k, an even head
\* count h and h dividing c is accepted and forward returns shape
\* (b, (s/k)^2, k*k, c).
C2_DivisibleReturnsPatches ==
    (/\ IsSquareImageCall
     /\ call.input.shape[3] % call.self.block_size = 0
     /\ call.self.nhead % 2 = 0
     /\ call.self.dim % call.self.nhead = 0)
        => /\ Returned(call.res)
           /\ call.res.val.shape =
                << call.input.shape[1],
                   (call.input.shape[3] \div call.self.block_size)
                     * (call.input.shape[3] \div call.self.block_size),
                   call.self.block_size * call.self.block_size,
                   call.self.dim >>

\* C3: with context absent, MultiQueryAttention.forward projects keys and values
\* from the input itself; None is never handed to the key/value projection.
C3_AbsentContextIsInput ==
    (call.fn = "MultiQueryAttention" /\ call.context = None)
        => call.res.kv_arg = call.input

\* C4: with d % h = 0, an input (b, n, d) and a present context (b, s, d),
\* MultiQueryAttention.forward runs every step without raising and returns a
\* tensor of the input's shape.
C4_ForwardReturnsInputShape ==
    (/\ call.fn = "MultiQueryAttention"
     /\ call.self.dim % call.self.nhead = 0
     /\ Last(call.input.shape) = call.self.dim
     /\ call.context # None
     /\ Last(call.context.shape) = call.self.dim)
        => /\ Returned(call.res)
           /\ call.res.val.shape = call.input.shape
           /\ Did(call.res, "to_q") /\ Did(call.res, "split_heads")
           /\ Did(call.res, "merge_heads") /\ Did(call.res, "to_o")

\* C5: when inner = floor(d*8/3) is even, MLP.forward maps last dimension d to d, and
\* the second layer norm and the second projection take the halved width inner/2.
C5_MLPKeepsWidth ==
    (/\ call.fn = "MLP"
     /\ MLP_inner_dim(call.self.dim) % 2 = 0
     /\ Last(call.input.shape) = call.self.dim)
        => /\ Returned(call.res)
           /\ call.res.val.shape = call.input.shape
           /\ MLP_ln2(call.self.dim).normalized_shape = MLP_inner_dim(call.self.dim) \div 2
           /\ MLP_proj2(call.self.dim).in_features = MLP_inner_dim(call.self.dim) \div 2

\* a forward call of an attention module on arguments its contract admits
ValidAttentionCall ==
    /\ IsAttentionCall
    /\ call.self.dim % call.self.nhead = 0
    /\ call.fn = "MultiQueryAttention"
         => /\ Last(call.input.shape) = call.self.dim
            /\ call.context # None
            /\ Last(call.context.shape) = call.self.dim
    /\ call.fn = "MultiAxisAttention"
         => /\ call.self.nhead % 2 = 0
            /\ call.input.shape[3] = call.input.shape[4]
            /\ call.input.shape[3] = call.self.block_size * call.self.block_size

\* C6: in evaluation mode an attention module applies no dropout, so a forward call
\* repeated with the same parameters and inputs returns the same result whatever the
\* random source yields.
C6_EvalModeDeterministic ==
    (/\ ValidAttentionCall
     /\ prev.fn = call.fn /\ prev.self = call.self
     /\ prev.input = call.input /\ prev.context = call.context
     /\ ~call.self.training)
        => /\ ~call.res.dropped /\ ~prev.res.dropped
           /\ Returned(prev.res) /\ Returned(call.res)
           /\ prev.res = call.res

\* C7: an attention module takes the fused path exactly when the runtime exposes the
\* fused scaled-dot-product-attention primitive.
C7_FusedWhenAvailable ==
    /\ obj.kind \in {"MultiQueryAttention", "MultiAxisAttention"}
         => (obj.flash <=> hasattr(F_attrs, "scaled_dot_product_attention"))
    /\ (IsAttentionCall /\ call.res.path # "none")
         => (call.res.path = "fused"
               <=> hasattr(F_attrs, "scaled_dot_product_attention"))

\* C8: TransformerBlock.forward runs residual self-attention, then residual
\* cross-attention exactly when context is present, then the MLP, and completes;
\* with context absent it completes without the cross-attention step.
C8_TransformerBlockOrder ==
    (/\ call.fn = "TransformerBlock"
     /\ call.self.dim % call.self.nhead = 0
     /\ Last(call.input.shape) = call.self.dim
     /\ call.context # None => Last(call.context.shape) = call.self.dim)
        => /\ Returned(call.res)
           /\ call.res.steps = IF call.context = None
                               THEN << "self_attn", "mlp" >>
                               ELSE << "self_attn", "cross_attn", "mlp" >>

\* element i of the tensor C9 expects from t: the first h/2 heads have their axes
\* n and p exchanged, the other heads are unchanged
ExpectedSplit(t, h, i) ==
    IF i[2] <= h \div 2 THEN t.data[[i EXCEPT ![3] = i[4], ![4] = i[3]]] ELSE t.data[i]
SplitAsExpected(t, out, h) ==
    /\ out.shape = t.shape
    /\ \A i \in Indices5(t.shape) : out.data[i] = ExpectedSplit(t, h, i)

\* C9: for an even head count h and q, k, v of shape (b, h, n, p, c) with n = p,
\* axis_splitting returns tensors of the same shape in which each head i < h/2 has
\* its axes n and p transposed, each head i >= h/2 is unchanged and the heads keep
\* their order, for q, k and v alike.
C9_AxisSplitting ==
    (/\ call.fn = "axis_splitting"
     /\ call.input.h % 2 = 0
     /\ call.input.q.shape[3] = call.input.q.shape[4])
        => /\ call.res.exc = "none"
           /\ SplitAsExpected(call.input.q, call.res.q, call.input.h)
           /\ SplitAsExpected(call.input.k, call.res.k, call.input.h)
           /\ SplitAsExpected(call.input.v, call.res.v, call.input.h)

\* a call of C9's case whose transposition moves elements and whose q, k and v differ
C9_Witness ==
    /\ call.fn = "axis_splitting"
    /\ call.input.h = 2
    /\ call.input.q.shape[3] = 2 /\ call.input.q.shape[4] = 2
    /\ call.input.q # call.input.k /\ call.input.k # call.input.v
    /\ call.res.exc = "none"
    /\ call.res.q # call.input.q

\* C10: when both asserts of MultiAxisAttention.forward pass, the blocker yields as
\* many patches n as a patch has pixels p = block_size^2, so the transposed first
\* half of the heads and the untransposed second half have equal shapes and the
\* concatenation of axis_splitting is shape-consistent.
C10_PatchesEqualPixels ==
    (call.fn = "MultiAxisAttention" /\ Did(call.res, "assert_block"))
        => /\ Did(call.res, "blocker")
           /\ call.res.n = call.res.p
           /\ call.res.p = call.self.block_size * call.self.block_size
           /\ SplitOne(Tensor(<< call.input.shape[1], call.self.nhead, call.res.n,
                                 call.res.p, call.self.dim \div call.self.nhead >>),
                       call.self.nhead).exc = "none"

\* both asserts passed on an image whose side is not a multiple of block_size
C10_Witness ==
    /\ call.fn = "MultiAxisAttention"
    /\ Did(call.res, "blocker")
    /\ call.self.block_size = 2
    /\ call.input.shape[3] = 5
    /\ call.self.nhead = 2
    /\ call.res.n = 4

====
